---- MODULE Spec2Model ----
(***************************************************************************)
(* FastBidder matching pipeline: OrchestratorService.compare_files and the *)
(* services it sequences (processing_data, semantic_analysis,              *)
(* matching_engine, excel_processing, file_management).                    *)
(*                                                                         *)
(* Conventions                                                             *)
(*   - Python None is <<>> and a present value x is <<x>> (None / Some).   *)
(*   - a description is a sequence of characters, so that str.strip() is   *)
(*     computed and not assumed;                                           *)
(*   - an embedding is a vector of two integers; similarities are kept in  *)
(*     hundredths of a percent point (100.0 is 10000), which is exactly    *)
(*     the precision np.round(.., 2) leaves.                               *)
(***************************************************************************)
EXTENDS Integers, Sequences, FiniteSets, TLC

VARIABLES
    pc,              \* position of the run: a stage of compare_files, or the service harness
    sessions,        \* ProcessingSession rows (set of ids)
    wfDescs,         \* WorkingFileDescription rows, in insertion order
    refDescs,        \* ReferenceFileDescription rows, in insertion order
    storedResults,   \* MatchingResult rows, in insertion order
    request,         \* compare_files: request_data as validated by the serializer
    extracted,       \* compare_files: extracted_data
    session_id,      \* compare_files: session_id local (None until stage 5 returns)
    embedding_result,\* compare_files: embedding_result local
    matching_results,\* compare_files: matching_results local
    result_file_path,\* compare_files: result_file_path local
    outFiles,        \* result files present on disk (set of paths)
    history,         \* stages entered by the run, in order
    response,        \* compare_files: returned dictionary (None while running)
    call,            \* service harness: last direct service call and its outcome
    compared,        \* whether match_descriptions got as far as computing similarities
    peer             \* a second client of the services: its position and session

vars == <<pc, sessions, wfDescs, refDescs, storedResults, request, extracted,
          session_id, embedding_result, matching_results, result_file_path,
          outFiles, history, response, call, compared, peer>>

store == <<sessions, wfDescs, refDescs, storedResults>>
locals == <<request, extracted, session_id, embedding_result, matching_results,
            result_file_path>>

----------------------------------------------------------------------------
(* Bounds of the model *)

MaxWf == 2
MaxRef == 2

----------------------------------------------------------------------------
(* Values *)

None == <<>>
Some(x) == <<x>>

\* descriptions: "a", "b", "c" and "c " (trailing blank)
DescA == <<"a">>
DescB == <<"b">>
DescC == <<"c">>
DescCBlank == <<"c", " ">>

Vectors == {<<1, 0>>, <<0, 1>>, <<1, 1>>, <<-1, 0>>}

\* primary keys the store can hand out, a well-formed id that names no session,
\* and a string that is no UUID
SessionIds == {"s1", "s2"}
MalformedId == "not-a-uuid"

Thresholds == {0, 100}
BadThresholds == {-1, 101}

RECURSIVE StripLeft(_)
StripLeft(s) ==
    IF s # <<>> /\ Head(s) = " " THEN StripLeft(Tail(s)) ELSE s

RECURSIVE StripRight(_)
StripRight(s) ==
    IF s # <<>> /\ s[Len(s)] = " " THEN StripRight(SubSeq(s, 1, Len(s) - 1)) ELSE s

Strip(s) == StripRight(StripLeft(s))

----------------------------------------------------------------------------
(* matching_engine: cosine similarity *)

Dot(u, v) == u[1] * v[1] + u[2] * v[2]

Abs(x) == IF x < 0 THEN -x ELSE x

\* np.round(np.dot(u/|u|, v/|v|) * 100, 2), in hundredths: the integer k with
\* k - 1/2 <= 10000 * |u.v| / sqrt(|u|^2 |v|^2) < k + 1/2, signed as u.v
CosineHundredths(u, v) ==
    LET d == Dot(u, v)
        n == Dot(u, u) * Dot(v, v)
        x == 400000000 * d * d
        k == CHOOSE k \in 0..10000 :
                /\ (k = 0 \/ (2 * k - 1) * (2 * k - 1) * n <= x)
                /\ x < (2 * k + 1) * (2 * k + 1) * n
    IN  IF d < 0 THEN -k ELSE k

SimTable == [u \in Vectors |-> [v \in Vectors |-> CosineHundredths(u, v)]]

\* similarity_matrix[i][j] for the embeddings of WF row i and REF row j
Similarity(u, v) == SimTable[u][v]

----------------------------------------------------------------------------
(* matching_engine: MatchingEngineService *)

\* __init__ binds self.Logger; the methods read self.logger, an attribute that
\* no statement of the class sets
\* the attribute read is the attribute set
SelfLoggerIsSetAsRead == TRUE

SelfLoggerIsSet == FALSE

MinOf(S) == CHOOSE x \in S : \A y \in S : x <= y

\* similarity_matrix[i]
RowSimilarities(w, ref) ==
    [j \in 1..Len(ref) |-> Similarity(w.embedding[1], ref[j].embedding[1])]

\* np.where(similarities > threshold)[0]
MatchesIndicesStrict(sims, threshold) ==
    {j \in DOMAIN sims : sims[j] > threshold * 100}

\* np.where(similarities >= threshold)[0]
MatchesIndices(sims, threshold) ==
    {j \in DOMAIN sims : sims[j] >= threshold * 100}

\* matches_indices[np.argmax(similarities[matches_indices])]: first maximum
BestMatchIdx(sims, M) ==
    MinOf({j \in M : \A k \in M : sims[k] <= sims[j]})

\* np.where(similarities == best_similarity)[0]
BestMatches(sims, best) ==
    {j \in DOMAIN sims : sims[j] = sims[best]}

\* first idx of best_matches with similarity 100.0 or equal stripped text
ExactTextMatch(w, ref, sims, B) ==
    LET E == {j \in B : \/ sims[j] = 10000
                        \/ Strip(w.description) = Strip(ref[j].description)}
    IN  IF E = {} THEN None ELSE Some(MinOf(E))

RefIdx(w, ref, sims, best) ==
    LET exact == ExactTextMatch(w, ref, sims, BestMatches(sims, best))
    IN  IF exact # None THEN exact[1] ELSE best

MatchingStatus(sims, best) ==
    IF Cardinality(BestMatches(sims, best)) > 1
    THEN "multiple_matches_best_selected"
    ELSE "matched"

NoMatchResult(w) ==
    [wf_row_index |-> w.row_index, wf_description |-> w.description,
     matched |-> FALSE, ref_row_index |-> None, ref_description |-> None,
     similarity |-> None, price |-> None, matching_status |-> "no_match"]

MatchedResultWithoutPrice(w, ref, sims, best) ==
    LET r == ref[RefIdx(w, ref, sims, best)]
    IN  [wf_row_index |-> w.row_index, wf_description |-> w.description,
         matched |-> TRUE, ref_row_index |-> Some(r.row_index),
         ref_description |-> Some(r.description),
         similarity |-> Some(sims[best]), price |-> None,
         matching_status |-> MatchingStatus(sims, best)]

MatchedResult(w, ref, sims, best) ==
    LET r == ref[RefIdx(w, ref, sims, best)]
    IN  [wf_row_index |-> w.row_index, wf_description |-> w.description,
         matched |-> TRUE, ref_row_index |-> Some(r.row_index),
         ref_description |-> Some(r.description),
         similarity |-> Some(sims[best]), price |-> Some(r.price),
         matching_status |-> MatchingStatus(sims, best)]

\* one turn of the loop over wf_data: the result appended, or the AttributeError
\* of self.logger.debug when several REF rows share the best similarity
RowOutcome(w, ref, threshold) ==
    LET sims == RowSimilarities(w, ref)
        M == MatchesIndices(sims, threshold)
    IN  IF M = {}
        THEN [raised |-> FALSE, result |-> NoMatchResult(w)]
        ELSE LET best == BestMatchIdx(sims, M)
             IN  IF Cardinality(BestMatches(sims, best)) > 1 /\ ~SelfLoggerIsSet
                 THEN [raised |-> TRUE, result |-> NoMatchResult(w)]
                 ELSE [raised |-> FALSE, result |-> MatchedResult(w, ref, sims, best)]

\* _calculate_embeddings_similarity: the list of results, or the exception that
\* ends the loop (the results built so far are lost with it)
CalculateEmbeddingsSimilarity(wf, ref, threshold) ==
    LET rows == [i \in 1..Len(wf) |-> RowOutcome(wf[i], ref, threshold)]
    IN  IF \E i \in 1..Len(wf) : rows[i].raised
        THEN [ok |-> FALSE, error |-> "AttributeError", results |-> <<>>]
        ELSE [ok |-> TRUE, error |-> "",
              results |-> [i \in 1..Len(wf) |-> rows[i].result]]

WfOf(sid) == SelectSeq(wfDescs, LAMBDA r : r.session_id = sid)
RefOf(sid) == SelectSeq(refDescs, LAMBDA r : r.session_id = sid)
ResultsOf(sid) == SelectSeq(storedResults, LAMBDA r : r.session_id = sid)

Failure(error, entered) ==
    [ok |-> FALSE, error |-> error, results |-> <<>>, compared |-> entered]

\* 0 <= matching_threshold
ThresholdInRangeNoUpperBound(threshold) == 0 <= threshold

\* 0 <= matching_threshold <= 100
ThresholdInRange(threshold) == 0 <= threshold /\ threshold <= 100

\* match_descriptions(session_id, matching_threshold): what it returns or raises;
\* compared tells whether _calculate_embeddings_similarity was entered
MatchDescriptions(sid, threshold) ==
    IF sid \notin SessionIds THEN Failure("ValueError", FALSE)
    ELSE IF ~ThresholdInRange(threshold) THEN Failure("ValueError", FALSE)
    ELSE IF sid \notin sessions THEN Failure("ValueError", FALSE)
    ELSE IF WfOf(sid) = <<>> THEN Failure("ValueError", FALSE)
    ELSE IF RefOf(sid) = <<>> THEN Failure("ValueError", FALSE)
    ELSE IF \E i \in 1..Len(WfOf(sid)) : WfOf(sid)[i].embedding = None
         THEN Failure("EmbeddingError", FALSE)
    ELSE IF \E j \in 1..Len(RefOf(sid)) : RefOf(sid)[j].embedding = None
         THEN Failure("EmbeddingError", FALSE)
    ELSE LET r == CalculateEmbeddingsSimilarity(WfOf(sid), RefOf(sid), threshold)
         IN  IF ~r.ok THEN Failure("Exception", TRUE)
             ELSE IF ~SelfLoggerIsSet THEN Failure("Exception", TRUE)
             ELSE [ok |-> TRUE, error |-> "", results |-> r.results, compared |-> TRUE]

----------------------------------------------------------------------------
(* processing_data: ProcessingDataService *)

\* rows bulk_create inserts for one session
WfRows(sid, data) ==
    [i \in 1..Len(data) |->
        [session_id |-> sid, row_index |-> data[i].row_index,
         description |-> data[i].description, embedding |-> None]]

RefRows(sid, data) ==
    [j \in 1..Len(data) |->
        [session_id |-> sid, row_index |-> data[j].row_index,
         description |-> data[j].description, price |-> data[j].price,
         embedding |-> None]]

\* store_descriptions(working_file_data, reference_file_data): the store it
\* leaves and what it returns; storage is "ok" or "error" (a failing insert).
\* The method is @transaction.atomic, so a raise leaves the store as it was.
StoreDescriptions(wf, ref, newId, storage) ==
    IF wf = <<>> \/ ref = <<>>
    THEN [outcome |-> "raised", error |-> "ValueError", session_id |-> None,
          sessions |-> sessions, wfDescs |-> wfDescs, refDescs |-> refDescs]
    ELSE IF storage # "ok"
    THEN [outcome |-> "raised", error |-> "StorageError", session_id |-> None,
          sessions |-> sessions, wfDescs |-> wfDescs, refDescs |-> refDescs]
    ELSE [outcome |-> "ok", error |-> "", session_id |-> Some(newId),
          sessions |-> sessions \cup {newId},
          wfDescs |-> wfDescs \o WfRows(newId, wf),
          refDescs |-> refDescs \o RefRows(newId, ref)]

ResultRows(sid, results) ==
    [i \in 1..Len(results) |->
        [session_id |-> sid,
         wf_row_index |-> results[i].wf_row_index,
         wf_description |-> results[i].wf_description,
         matched |-> results[i].matched,
         ref_row_index |-> results[i].ref_row_index,
         ref_description |-> results[i].ref_description,
         similarity |-> results[i].similarity,
         price |-> results[i].price,
         matching_status |-> results[i].matching_status]]

\* a result that passes the field validation of the loop (the others are logged
\* and skipped)
ResultIsStorable(r) ==
    /\ {"wf_row_index", "wf_description", "matched", "matching_status"}
          \subseteq DOMAIN r
    /\ r.matched => /\ r.ref_row_index # None /\ r.ref_description # None
                    /\ r.similarity # None /\ r.price # None

NotOf(rows, sid) == SelectSeq(rows, LAMBDA r : r.session_id # sid)

\* store_matching_results(matching_results, session_id); storage is "ok",
\* "db_error" (DatabaseError, re-raised) or "error" (any other exception: the
\* method returns False). @transaction.atomic: a raise rolls back, a return
\* commits what was done.
StoreMatchingResults(results, sid, storage) ==
    IF sid \notin sessions
    THEN [outcome |-> "raised", error |-> "SessionNotFoundError",
          storedResults |-> storedResults]
    ELSE IF results = <<>>
    THEN [outcome |-> "ok", error |-> "", storedResults |-> storedResults]
    ELSE IF storage = "db_error"
    THEN [outcome |-> "raised", error |-> "DatabaseError",
          storedResults |-> storedResults]
    ELSE IF storage = "error"
    THEN [outcome |-> "returned_failure", error |-> "",
          storedResults |-> NotOf(storedResults, sid)]
    ELSE [outcome |-> "ok", error |-> "",
          storedResults |-> NotOf(storedResults, sid)
              \o ResultRows(sid, SelectSeq(results, ResultIsStorable))]

\* clear_data that deletes the rows of every session
ClearDataAllSessions(sid, storage) ==
    LET same == [sessions |-> sessions, wfDescs |-> wfDescs,
                 refDescs |-> refDescs, storedResults |-> storedResults]
    IN  IF sid \notin SessionIds
        THEN [outcome |-> "raised", error |-> "ValueError"] @@ same
        ELSE IF sid \notin sessions
        THEN [outcome |-> "raised", error |-> "SessionNotFoundError"] @@ same
        ELSE IF storage = "db_error"
        THEN [outcome |-> "raised", error |-> "DatabaseError"] @@ same
        ELSE IF storage = "error"
        THEN [outcome |-> "returned_failure", error |-> ""] @@ same
        ELSE [outcome |-> "ok", error |-> "",
              sessions |-> {}, wfDescs |-> <<>>, refDescs |-> <<>>,
              storedResults |-> <<>>]

\* store_matching_results handed an argument that is a list (of `items`) or is
\* not one: isinstance(matching_results, list) is tested once the session is
\* found
StoreMatchingResultsOf(arg, sid, storage) ==
    IF sid \in sessions /\ ~arg.is_list
    THEN [outcome |-> "raised", error |-> "ValueError",
          storedResults |-> storedResults]
    ELSE StoreMatchingResults(arg.items, sid, storage)

\* clear_data that leaves the matching results of the session in place
ClearDataKeepsResults(sid, storage) ==
    LET same == [sessions |-> sessions, wfDescs |-> wfDescs,
                 refDescs |-> refDescs, storedResults |-> storedResults]
    IN  IF sid \notin SessionIds
        THEN [outcome |-> "raised", error |-> "ValueError"] @@ same
        ELSE IF sid \notin sessions
        THEN [outcome |-> "raised", error |-> "SessionNotFoundError"] @@ same
        ELSE IF storage = "db_error"
        THEN [outcome |-> "raised", error |-> "DatabaseError"] @@ same
        ELSE IF storage = "error"
        THEN [outcome |-> "returned_failure", error |-> ""] @@ same
        ELSE [outcome |-> "ok", error |-> "",
              sessions |-> sessions \ {sid},
              wfDescs |-> SelectSeq(wfDescs, LAMBDA r : r.session_id # sid),
              refDescs |-> SelectSeq(refDescs, LAMBDA r : r.session_id # sid),
              storedResults |-> storedResults]

\* clear_data(session_id); storage as for store_matching_results
ClearData(sid, storage) ==
    LET same == [sessions |-> sessions, wfDescs |-> wfDescs,
                 refDescs |-> refDescs, storedResults |-> storedResults]
    IN  IF sid \notin SessionIds
        THEN [outcome |-> "raised", error |-> "ValueError"] @@ same
        ELSE IF sid \notin sessions
        THEN [outcome |-> "raised", error |-> "SessionNotFoundError"] @@ same
        ELSE IF storage = "db_error"
        THEN [outcome |-> "raised", error |-> "DatabaseError"] @@ same
        ELSE IF storage = "error"
        THEN [outcome |-> "returned_failure", error |-> ""] @@ same
        ELSE [outcome |-> "ok", error |-> "",
              sessions |-> sessions \ {sid},
              wfDescs |-> NotOf(wfDescs, sid),
              refDescs |-> NotOf(refDescs, sid),
              storedResults |-> NotOf(storedResults, sid)]

----------------------------------------------------------------------------
(* semantic_analysis: SemanticAnalysisService *)

BatchSize == 32

Descriptions == {DescA, DescB, DescC, DescCBlank}

\* the embedding model: a function of the text alone
EmbedModels ==
    {[d \in Descriptions |->
        IF d = DescA THEN <<1, 0>> ELSE IF d = DescB THEN <<0, 1>> ELSE <<1, 1>>],
     [d \in Descriptions |->
        IF d \in {DescA, DescB} THEN <<1, 0>> ELSE <<-1, 0>>]}

NumBatches(n) == (n + BatchSize - 1) \div BatchSize

BatchLen(n, b) == IF b * BatchSize <= n THEN BatchSize ELSE n - (b - 1) * BatchSize

\* what one batch can come to: the first `stored` rows of the batch keep their
\* embedding and `counted` is what success_count grew by. Either the batch
\* commits (stored = counted = number of vectors the model returned), or it
\* raises after `counted` saves and transaction.atomic() rolls the saves back.
BatchOutcomes(len) ==
    {[stored |-> k, counted |-> k, raised |-> FALSE] : k \in 0..len}
        \cup {[stored |-> 0, counted |-> c, raised |-> TRUE] : c \in 0..len}

\* the outcomes of all batches of a list of n descriptions
BatchRuns(n) ==
    {f \in [1..NumBatches(n) -> BatchOutcomes(BatchSize)] :
        \A b \in 1..NumBatches(n) : f[b] \in BatchOutcomes(BatchLen(n, b))}

RECURSIVE SumCounted(_, _)
SumCounted(run, b) ==
    IF b = 0 THEN 0 ELSE run[b].counted + SumCounted(run, b - 1)

\* _process_working_descriptions / _process_reference_descriptions on the rows
\* of one session: the rows as saved, and success_count
ProcessDescriptions(rows, em, run) ==
    [rows |-> [i \in 1..Len(rows) |->
                 IF (i - 1) % BatchSize < run[((i - 1) \div BatchSize) + 1].stored
                 THEN [rows[i] EXCEPT !.embedding = Some(em[rows[i].description])]
                 ELSE rows[i]],
     count |-> SumCounted(run, NumBatches(Len(rows)))]

\* position of row i of `rows` among the rows of its session
IndexIn(rows, i) ==
    Cardinality({j \in 1..i : rows[j].session_id = rows[i].session_id})

\* the table with the rows of session sid replaced by `updated`
Merge(rows, sid, updated) ==
    [i \in 1..Len(rows) |->
        IF rows[i].session_id = sid THEN updated[IndexIn(rows, i)] ELSE rows[i]]

\* generate_embeddings(session_id); db is "ok" or "db_error"
GenerateEmbeddings(sid, em, wfRun, refRun, db) ==
    LET same == [wfDescs |-> wfDescs, refDescs |-> refDescs,
                 status |-> "", embeddings_generated |-> 0]
        w == ProcessDescriptions(WfOf(sid), em, wfRun)
        r == ProcessDescriptions(RefOf(sid), em, refRun)
    IN  IF sid \notin SessionIds \/ sid \notin sessions
        THEN [outcome |-> "raised", error |-> "ValueError"] @@ same
        ELSE IF db # "ok"
        THEN [outcome |-> "raised", error |-> "DatabaseError"] @@ same
        ELSE IF WfOf(sid) = <<>> /\ RefOf(sid) = <<>>
        THEN [outcome |-> "raised", error |-> "ValueError"] @@ same
        ELSE [outcome |-> "ok", error |-> "",
              wfDescs |-> Merge(wfDescs, sid, w.rows),
              refDescs |-> Merge(refDescs, sid, r.rows),
              status |-> IF w.count + r.count < Len(WfOf(sid)) + Len(RefOf(sid))
                         THEN "partial_success" ELSE "success",
              embeddings_generated |-> w.count + r.count]

----------------------------------------------------------------------------
(* excel_processing and file_management, as far as compare_files observes them *)

\* get_result_file_path: "<base>_result_<YYYYMMDD-HHMM>.xlsx" under media/results
Minutes == {1, 2}

ResultFilePath(file, minute) == [base |-> file, minute |-> minute]

----------------------------------------------------------------------------
(* excel_processing: ExcelProcessingService on the content of a workbook.
   A sheet is its first row (header) and the rows below it; a cell is blank,
   a text or a number. *)

\* bound: rows below the header row of a sheet
MaxRows == 3

Blank == [kind |-> "blank"]
TextCell(t) == [kind |-> "text", text |-> t]
NumberCell(v) == [kind |-> "number", value |-> v]

\* pd.isna(cell_value)
IsNa(c) == c.kind = "blank"

Digits == <<"0", "1", "2", "3", "4", "5", "6", "7", "8", "9">>

\* f"Unnamed: {i}" and f"Col_{i}"
UnnamedColumn(i) == <<"U", "n", "n", "a", "m", "e", "d", ":", " ", Digits[i + 1]>>
ColName(i) == <<"C", "o", "l", "_", Digits[i + 1]>>

\* pd.read_excel(path): the first row names the columns, a blank header cell
\* being named "Unnamed: <position>"; the other rows are the rows 0, 1, .. of
\* the frame
ReadExcel(sheet) ==
    [columns |-> [k \in 1..Len(sheet.header) |->
                    IF IsNa(sheet.header[k])
                    THEN UnnamedColumn(k - 1)
                    ELSE sheet.header[k].text],
     rows |-> sheet.rows]

\* df.to_excel(path, index=False): the column names become the first row
ToExcel(df) ==
    [header |-> [k \in 1..Len(df.columns) |-> TextCell(df.columns[k])],
     rows |-> df.rows]

Alphabet ==
    <<"A", "B", "C", "D", "E", "F", "G", "H", "I", "J", "K", "L", "M",
      "N", "O", "P", "Q", "R", "S", "T", "U", "V", "W", "X", "Y", "Z">>

LowerAlphabet ==
    <<"a", "b", "c", "d", "e", "f", "g", "h", "i", "j", "k", "l", "m",
      "n", "o", "p", "q", "r", "s", "t", "u", "v", "w", "x", "y", "z">>

\* str.upper() of one character
Upper(ch) ==
    IF \E k \in 1..26 : LowerAlphabet[k] = ch
    THEN Alphabet[CHOOSE k \in 1..26 : LowerAlphabet[k] = ch]
    ELSE ch

\* ord(char) - ord("A") + 1 of an uppercase letter
LetterValue(ch) == CHOOSE k \in 1..26 : Alphabet[k] = ch

RECURSIVE Base26(_)
Base26(letters) ==
    IF letters = <<>> THEN 0
    ELSE Base26(SubSeq(letters, 1, Len(letters) - 1)) * 26
            + LetterValue(letters[Len(letters)])

\* _column_letter_to_index(column_letter): the 0-based index, or ValueError
ColumnLetterToIndex(column_letter) ==
    LET up == [k \in 1..Len(column_letter) |-> Upper(column_letter[k])]
    IN  IF \E k \in 1..Len(up) : \A a \in 1..26 : Alphabet[a] # up[k]
        THEN [ok |-> FALSE, index |-> 0]
        ELSE [ok |-> TRUE, index |-> Base26(up) - 1]

\* a position handed to iloc / iat on an axis of length n is valid from -n to
\* n - 1, the negative ones counting from the end
PositionIsValid(p, n) == -n <= p /\ p < n
Position(p, n) == IF p < 0 THEN p + n ELSE p

\* df.iloc[p, c]
CellAt(df, p, c) ==
    df.rows[Position(p, Len(df.rows)) + 1][Position(c, Len(df.columns)) + 1]

\* str(cell_value) of a text cell (description columns hold texts or nothing)
Str(c) == c.text

\* float(price_value): a number, or the text "7"; any other text is a ValueError
ParsesAsFloat(c) == c.kind = "number" \/ (c.kind = "text" /\ Strip(c.text) = <<"7">>)
FloatOf(c) == IF c.kind = "number" THEN c.value ELSE 7

ExtractionRaised == [ok |-> FALSE, records |-> <<>>]

\* the loop indices range(start_row, end_row), in order
LoopIndices(start_row, end_row) ==
    [k \in 1..(IF end_row > start_row THEN end_row - start_row ELSE 0) |->
        start_row + k - 1]

\* the frame row the loop reads at index i: df.iloc[i - 1, ..]
ReadPosition(i) == i - 1

\* the description of a row the loop keeps: str(cell_value).strip(), non-empty
KeepsDescriptionUnstripped(c) == ~IsNa(c) /\ Str(c) # <<>>

KeepsDescription(c) == ~IsNa(c) /\ Strip(Str(c)) # <<>>

WfRecordAtLoopIndex(i, c) == [row_index |-> i, description |-> Strip(Str(c))]

\* the record appended for loop index i: row_index is i + 1
WfRecord(i, c) == [row_index |-> i + 1, description |-> Strip(Str(c))]

RefRecord(i, c, p) ==
    [row_index |-> i + 1, description |-> Strip(Str(c)), price |-> FloatOf(p)]

\* _extract_working_file_data on the frame read from the file; every exception
\* leaves as ValueError
ExtractWorkingFileData(sheet, description_column, start, end) ==
    LET df == ReadExcel(sheet)
        n == Len(df.rows)
        col == ColumnLetterToIndex(description_column)
        start_row == start - 1
        end_row == IF end > n THEN n ELSE end
        loop == LoopIndices(start_row, end_row)
    IN  IF ~col.ok \/ start_row < 0 \/ col.index >= Len(df.columns)
        THEN ExtractionRaised
        ELSE IF \E k \in 1..Len(loop) :
                   \/ ~PositionIsValid(ReadPosition(loop[k]), n)
                   \/ ~PositionIsValid(col.index, Len(df.columns))
        THEN ExtractionRaised
        ELSE LET kept == SelectSeq(loop, LAMBDA i :
                            KeepsDescription(CellAt(df, ReadPosition(i), col.index)))
             IN  [ok |-> TRUE,
                  records |-> [k \in 1..Len(kept) |->
                      WfRecord(kept[k],
                               CellAt(df, ReadPosition(kept[k]), col.index))]]

\* _extract_reference_file_data: the range is not cut to the frame (the
\* assignment end_row = len(df) is commented out)
ExtractReferenceFileData(sheet, description_column, start, end, price_column) ==
    LET df == ReadExcel(sheet)
        n == Len(df.rows)
        dcol == ColumnLetterToIndex(description_column)
        pcol == ColumnLetterToIndex(price_column)
        start_row == start - 1
        end_row == end
        loop == LoopIndices(start_row, end_row)
    IN  IF ~dcol.ok \/ ~pcol.ok \/ start_row < 0
           \/ dcol.index >= Len(df.columns) \/ pcol.index >= Len(df.columns)
        THEN ExtractionRaised
        ELSE IF \E k \in 1..Len(loop) :
                   \/ ~PositionIsValid(ReadPosition(loop[k]), n)
                   \/ ~PositionIsValid(dcol.index, Len(df.columns))
                   \/ ~PositionIsValid(pcol.index, Len(df.columns))
        THEN ExtractionRaised
        ELSE LET kept == SelectSeq(loop, LAMBDA i :
                            /\ KeepsDescription(CellAt(df, ReadPosition(i), dcol.index))
                            /\ ~IsNa(CellAt(df, ReadPosition(i), pcol.index))
                            /\ ParsesAsFloat(CellAt(df, ReadPosition(i), pcol.index)))
             IN  [ok |-> TRUE,
                  records |-> [k \in 1..Len(kept) |->
                      RefRecord(kept[k],
                                CellAt(df, ReadPosition(kept[k]), dcol.index),
                                CellAt(df, ReadPosition(kept[k]), pcol.index))]]

\* index_offset: what update_working_file subtracts from wf_row_index
IndexOffset == 2

\* df[f"Col_{i}"] = np.nan for i in range(df.shape[1], idx + 1)
AddColumns(df, idx) ==
    LET have == Len(df.columns)
    IN  IF idx < have THEN df
        ELSE [columns |-> df.columns \o
                            [k \in 1..(idx + 1 - have) |-> ColName(have + k - 1)],
              rows |-> [p \in 1..Len(df.rows) |->
                          df.rows[p] \o [k \in 1..(idx + 1 - have) |-> Blank]]]

MaxRowIdx(results) ==
    CHOOSE m \in {results[k].wf_row_index : k \in 1..Len(results)} :
        \A k \in 1..Len(results) : results[k].wf_row_index <= m

\* rows of NaN appended while max_row_idx >= len(df)
AddRows(df, results) ==
    IF results = <<>> \/ MaxRowIdx(results) < Len(df.rows) THEN df
    ELSE [columns |-> df.columns,
          rows |-> df.rows \o
                     [k \in 1..(MaxRowIdx(results) - Len(df.rows) + 1) |->
                        [c \in 1..Len(df.columns) |-> Blank]]]

\* matching_status.replace("_", " ").capitalize()
StatusText(status) ==
    IF status = "matched" THEN "Matched"
    ELSE IF status = "multiple_matches_best_selected"
    THEN "Multiple matches best selected"
    ELSE "No match"

\* f"{similarity_value:.1f}%": the hundredths rounded to tenths, or "N/A"
SimilarityFormatted(similarity) ==
    IF similarity = None THEN None
    ELSE IF similarity[1] >= 0 THEN Some((similarity[1] + 5) \div 10)
    ELSE Some(-((5 - similarity[1]) \div 10))

\* report_text of a matched result, "Brak dopasowania" of an unmatched one
ReportCell(result) ==
    IF result.matched
    THEN [kind |-> "report", status |-> StatusText(result.matching_status),
          similarity |-> SimilarityFormatted(result.similarity)]
    ELSE TextCell(<<"Brak dopasowania">>)

PriceCell(result) ==
    IF result.price = None THEN Blank ELSE NumberCell(result.price[1])

SetCell(df, p, c, v) ==
    [df EXCEPT !.rows[Position(p, Len(df.rows)) + 1]
                     [Position(c, Len(df.columns)) + 1] = v]

\* whether the loop writes the result: row_idx < len(df) and row_idx >= 0
RowIsWritten(df, result) ==
    /\ result.wf_row_index - IndexOffset < Len(df.rows)
    /\ result.wf_row_index - IndexOffset >= 0

\* one turn of the loop over matching_results
WriteResult(df, result, price_col_idx, report_col_idx) ==
    LET row_idx == result.wf_row_index - IndexOffset
    IN  IF ~RowIsWritten(df, result) THEN df
        ELSE IF result.matched
        THEN SetCell(SetCell(df, row_idx, price_col_idx, PriceCell(result)),
                     row_idx, report_col_idx, ReportCell(result))
        ELSE SetCell(df, row_idx, report_col_idx, ReportCell(result))

RECURSIVE WriteResults(_, _, _, _)
WriteResults(df, results, price_col_idx, report_col_idx) ==
    IF results = <<>> THEN df
    ELSE WriteResults(WriteResult(df, Head(results), price_col_idx, report_col_idx),
                      Tail(results), price_col_idx, report_col_idx)

\* update_working_file up to the write of the target: the frame and updated_rows
UpdateFrame(sheet, results, price_target_column, matching_report_column) ==
    LET price == ColumnLetterToIndex(price_target_column)
        report == ColumnLetterToIndex(matching_report_column)
        sized == AddRows(AddColumns(AddColumns(ReadExcel(sheet), price.index),
                                    report.index), results)
    IN  IF ~price.ok \/ ~report.ok
        THEN [ok |-> FALSE, df |-> ReadExcel(sheet), updated_rows |-> 0]
        ELSE [ok |-> TRUE,
              df |-> WriteResults(sized, results, price.index, report.index),
              updated_rows |-> Cardinality({k \in 1..Len(results) :
                                              RowIsWritten(sized, results[k])})]

\* update_working_file(matching_results, source, target, price_target_column,
\* matching_report_column) on a source holding `sheet`. io is "ok", "read_error"
\* (pd.read_excel raises), "open_error" (df.to_excel raises before the target
\* is created) or "write_error" (df.to_excel raises after it opened the target
\* for writing). Every exception is caught and the method returns False.
UpdateWorkingFile(results, sheet, price_column, report_column, target, io) ==
    LET u == UpdateFrame(sheet, results, price_column, report_column)
        failed(file, files) ==
            [outcome |-> "returned_failure", outFiles |-> files, file |-> file,
             sheet |-> sheet, updated_rows |-> 0]
    IN  IF io = "read_error" \/ ~u.ok \/ io = "open_error"
        THEN failed("none", outFiles)
        ELSE IF io = "write_error"
        THEN failed("truncated", outFiles \cup {target})
        ELSE [outcome |-> "ok", outFiles |-> outFiles \cup {target},
              file |-> "complete", sheet |-> ToExcel(u.df),
              updated_rows |-> u.updated_rows]

(* orchestrator: OrchestratorService.compare_files *)

StageOrder ==
    <<"validate", "validate_files", "get_file_paths", "extract_data",
      "store_descriptions", "generate_embeddings", "match_descriptions",
      "store_matching_results", "get_result_file_path", "update_working_file",
      "clear_data">>

StageIndex(stage) == CHOOSE i \in 1..Len(StageOrder) : StageOrder[i] = stage

\* CompareFilesRequestSerializer.is_valid(): the shape checks and
\* IntegerField(min_value=0, max_value=100)
SerializerIsValid(shapeOk, threshold) ==
    shapeOk /\ 0 <= threshold /\ threshold <= 100

\* whether compare_files goes on after a stage that ended with `outcome`
\* ("ok", "returned_failure": a falsy or invalid return value, "raised").
\* The value clear_data returns is not looked at.
Proceeds(stage, outcome) ==
    \/ outcome = "ok"
    \/ stage = "clear_data" /\ outcome = "returned_failure"

\* compare_files without the check of validation_result["valid"]
NextPcUnchecked(stage, outcome) ==
    IF stage = "clear_data" \/ (~Proceeds(stage, outcome) /\ stage # "validate_files")
    THEN "done"
    ELSE StageOrder[StageIndex(stage) + 1]

\* compare_files calling a failed stage again
NextPcRetries(stage, outcome) ==
    IF ~Proceeds(stage, outcome) THEN stage
    ELSE IF stage = "clear_data" THEN "done"
    ELSE StageOrder[StageIndex(stage) + 1]

\* compare_files clearing the session when the matching raises
NextPcCleansUpOnFailure(stage, outcome) ==
    IF stage = "match_descriptions" /\ ~Proceeds(stage, outcome) THEN "clear_data"
    ELSE IF ~Proceeds(stage, outcome) \/ stage = "clear_data" THEN "done"
    ELSE StageOrder[StageIndex(stage) + 1]

NextPc(stage, outcome) ==
    IF ~Proceeds(stage, outcome) \/ stage = "clear_data"
    THEN "done"
    ELSE StageOrder[StageIndex(stage) + 1]

\* error_message of the response; an exception that reaches the outer handler
\* is reported with its own text only
ErrorMessage(stage, outcome) ==
    CASE stage = "validate" -> "Incorrect input parameters"
      [] stage = "validate_files" /\ outcome = "returned_failure" -> "Incorrect files"
      [] stage = "extract_data" /\ outcome = "returned_failure" ->
            "Error during data extraction"
      [] stage = "store_descriptions" -> "Error while storing descriptions"
      [] stage = "generate_embeddings" -> "Error while generating embedding"
      [] stage = "match_descriptions" -> "Error when adjusting the descriptions"
      [] stage = "store_matching_results" /\ outcome = "returned_failure" ->
            "Error while storing results"
      [] stage = "update_working_file" -> "Error while updating the file"
      [] OTHER -> "str(e)"

CountMatched(results) ==
    Cardinality({i \in 1..Len(results) : results[i].matched})

\* what compare_files returns when a stage ends the run (None while it goes on)
Response(stage, outcome, path, results) ==
    IF ~Proceeds(stage, outcome)
    THEN Some([status |-> "error", error_message |-> ErrorMessage(stage, outcome)])
    ELSE IF stage = "clear_data"
    THEN Some([status |-> "success", modified_file_path |-> path,
               matching_summary |->
                  [total_items |-> Len(results),
                   matched_items |-> CountMatched(results),
                   unmatched_items |-> Len(results) - CountMatched(results)]])
    ELSE None

\* the run leaves a stage: env tells whether the stage's inputs and the
\* storage, model and file system it used behaved ("ok") or not ("fault")
StageDone(stage, outcome, env, path, results) ==
    /\ history' = Append(history, [stage |-> stage, outcome |-> outcome, env |-> env])
    /\ pc' = NextPc(stage, outcome)
    /\ response' = Response(stage, outcome, path, results)
    /\ call' = call

\* a direct call of a service method returns to the harness
CallDone(op, args, out) ==
    /\ call' = Some([op |-> op, args |-> args, out |-> out])
    /\ pc' = "called"
    /\ UNCHANGED <<history, response, locals>>

----------------------------------------------------------------------------
(* Inputs *)

SeqsUpTo(S, n) == UNION {[1..k -> S] : k \in 0..n}

\* what extract_data can return: WF rows 3, 4, .. and REF rows 2, 3, .. of the
\* sheets, descriptions stripped and non-empty
ExtractedDescs == {DescA, DescB}

ExtractedWf ==
    {[i \in 1..Len(d) |-> [row_index |-> i + 2, description |-> d[i]]] :
        d \in SeqsUpTo(ExtractedDescs, MaxWf)}

ExtractedRef ==
    {[j \in 1..Len(d) |-> [row_index |-> j + 1, description |-> d[j], price |-> 5 * j]] :
        d \in SeqsUpTo(ExtractedDescs, MaxRef)}

\* rows a session can hold when a service method is called directly
WfItems ==
    {[description |-> DescA, embedding |-> Some(<<1, 0>>)],
     [description |-> DescB, embedding |-> Some(<<0, 1>>)],
     [description |-> DescCBlank, embedding |-> Some(<<1, 1>>)],
     [description |-> DescA, embedding |-> None]}

RefItems ==
    {[description |-> DescA, embedding |-> Some(<<1, 0>>)],
     [description |-> DescC, embedding |-> Some(<<1, 0>>)],
     [description |-> DescB, embedding |-> Some(<<0, 1>>)],
     [description |-> DescCBlank, embedding |-> Some(<<1, 1>>)],
     [description |-> DescB, embedding |-> Some(<<-1, 0>>)],
     [description |-> DescA, embedding |-> None]}

WfFixtures ==
    {[i \in 1..Len(items) |->
        [session_id |-> "s1", row_index |-> i + 2,
         description |-> items[i].description, embedding |-> items[i].embedding]] :
        items \in SeqsUpTo(WfItems, MaxWf)}

RefFixtures ==
    {[j \in 1..Len(items) |->
        [session_id |-> "s1", row_index |-> j + 1,
         description |-> items[j].description, price |-> 5 * j,
         embedding |-> items[j].embedding]] :
        items \in SeqsUpTo(RefItems, MaxRef)}

\* lists of results handed to store_matching_results and update_working_file
\* when they are called directly
ResultFixtures ==
    {<<>>,
     <<NoMatchResult([row_index |-> 3, description |-> DescA])>>,
     <<[wf_row_index |-> 3, wf_description |-> DescA, matched |-> TRUE,
        ref_row_index |-> Some(2), ref_description |-> Some(DescA),
        similarity |-> Some(10000), price |-> Some(5),
        matching_status |-> "matched"]>>}

\* lists with an element that does not pass the validation: a matched result
\* without a price, a result without its description, and such a result
\* followed by a valid one
InvalidResultFixtures ==
    {<<[wf_row_index |-> 3, wf_description |-> DescA, matched |-> TRUE,
        ref_row_index |-> Some(2), ref_description |-> Some(DescA),
        similarity |-> Some(10000), price |-> None,
        matching_status |-> "matched"]>>,
     <<[wf_row_index |-> 3, matched |-> FALSE, matching_status |-> "no_match"]>>,
     <<[wf_row_index |-> 3, matched |-> FALSE, matching_status |-> "no_match"],
       NoMatchResult([row_index |-> 4, description |-> DescB])>>}

\* rows of the sheets handed to the extraction: description in column A, price
\* in column B
SheetRows ==
    {<<TextCell(DescA), NumberCell(5)>>,
     <<Blank, NumberCell(5)>>,
     <<TextCell(<<" ">>), NumberCell(5)>>,
     <<TextCell(DescCBlank), Blank>>,
     <<TextCell(DescB), TextCell(<<"x">>)>>,
     <<TextCell(DescB), TextCell(<<"7">>)>>}

NamedHeader == <<TextCell(<<"d">>), TextCell(<<"p">>)>>

ExtractionSheets ==
    {[header |-> NamedHeader, rows |-> rows] : rows \in SeqsUpTo(SheetRows, MaxRows)}

\* description_range: start and end as the caller gives them
RangeStarts == 0..MaxRows
RangeEnds == 1..(MaxRows + 2)

\* sheets handed to update_working_file: rows that differ from one another,
\* under a header row with or without a blank cell
UpdateSheets ==
    {[header |-> h,
      rows |-> [k \in 1..n |-> <<TextCell(<<Digits[k + 1]>>), NumberCell(k)>>]] :
        h \in {NamedHeader, <<TextCell(<<"d">>), Blank>>}, n \in 0..MaxRows}

\* results handed to update_working_file when it is called directly
WriteBackItems ==
    {[wf_row_index |-> r, wf_description |-> DescA, matched |-> FALSE,
      ref_row_index |-> None, ref_description |-> None, similarity |-> None,
      price |-> None, matching_status |-> "no_match"] : r \in 1..(MaxRows + 3)}
    \cup
    {[wf_row_index |-> r, wf_description |-> DescA, matched |-> TRUE,
      ref_row_index |-> Some(2), ref_description |-> Some(DescA),
      similarity |-> Some(7071), price |-> Some(9),
      matching_status |-> "matched"] : r \in 1..(MaxRows + 3)}

WriteBackResults == SeqsUpTo(WriteBackItems, 2)

PriceColumns == {<<"B">>, <<"C">>}
ReportColumns == {<<"C">>, <<"D">>}

\* column letters handed to _column_letter_to_index when it is called directly
MaxLetters == 2
LetterChars == {"A", "B", "Z", "a", "z", "1"}
ColumnLetters == SeqsUpTo(LetterChars, MaxLetters)

AllEmbedded(rows) == \A i \in 1..Len(rows) : rows[i].embedding # None

----------------------------------------------------------------------------
(* Initial states: a compare_files request arrives at an empty store, or a
   service method is about to be called on a session that holds rows *)

\* the second client before its store_descriptions call, and one that makes
\* no call
PeerAtStore(kind) == [kind |-> kind, pc |-> "store_descriptions", session_id |-> None]
PeerIdle == [kind |-> "client", pc |-> "done", session_id |-> None]

InitRun ==
    /\ pc = "start"
    /\ sessions = {}
    /\ wfDescs = <<>>
    /\ refDescs = <<>>
    /\ peer = PeerAtStore("run")

InitHarness ==
    /\ pc = "harness"
    /\ sessions = {"s1"}
    /\ wfDescs \in WfFixtures
    /\ refDescs \in RefFixtures
    /\ peer = IF Len(wfDescs) <= 1 /\ Len(refDescs) <= 1
              THEN PeerAtStore("client") ELSE PeerIdle

Init ==
    /\ InitRun \/ InitHarness
    /\ storedResults = <<>>
    /\ request = None
    /\ extracted = None
    /\ session_id = None
    /\ embedding_result = None
    /\ matching_results = <<>>
    /\ result_file_path = None
    /\ outFiles = {}
    /\ history = <<>>
    /\ response = None
    /\ call = None
    /\ compared = FALSE

----------------------------------------------------------------------------
(* compare_files, stages 1 to 6 *)

Validate ==
    /\ pc = "start"
    /\ \E shapeOk \in BOOLEAN, threshold \in Thresholds \cup BadThresholds :
         LET valid == SerializerIsValid(shapeOk, threshold)
         IN  /\ request' = IF valid
                           THEN Some([threshold |-> threshold, file |-> "wf.xlsx"])
                           ELSE None
             /\ StageDone("validate", IF valid THEN "ok" ELSE "returned_failure",
                          IF valid THEN "ok" ELSE "fault", None, <<>>)
    /\ UNCHANGED <<store, outFiles, extracted, session_id, embedding_result,
                   matching_results, result_file_path>>
    /\ UNCHANGED <<compared, peer>>

ValidateFiles ==
    /\ pc = "validate_files"
    /\ \E outcome \in {"ok", "returned_failure", "raised"} :
         StageDone("validate_files", outcome,
                   IF outcome = "ok" THEN "ok" ELSE "fault", None, <<>>)
    /\ UNCHANGED <<store, outFiles, locals>>
    /\ UNCHANGED <<compared, peer>>

GetFilePaths ==
    /\ pc = "get_file_paths"
    /\ \E outcome \in {"ok", "raised"} :
         StageDone("get_file_paths", outcome,
                   IF outcome = "ok" THEN "ok" ELSE "fault", None, <<>>)
    /\ UNCHANGED <<store, outFiles, locals>>
    /\ UNCHANGED <<compared, peer>>

ExtractData ==
    /\ pc = "extract_data"
    /\ \E data \in {None} \cup
                   {Some([wf |-> w, ref |-> r]) : w \in ExtractedWf, r \in ExtractedRef} :
         /\ extracted' = data
         /\ StageDone("extract_data", IF data = None THEN "raised" ELSE "ok",
                      IF data = None THEN "fault" ELSE "ok", None, <<>>)
    /\ UNCHANGED <<store, outFiles, request, session_id, embedding_result,
                   matching_results, result_file_path>>
    /\ UNCHANGED <<compared, peer>>

StoreDescriptionsStep ==
    /\ pc = "store_descriptions"
    /\ \E newId \in SessionIds \ sessions, storage \in {"ok", "error"} :
         LET r == StoreDescriptions(extracted[1].wf, extracted[1].ref, newId, storage)
         IN  /\ sessions' = r.sessions
             /\ wfDescs' = r.wfDescs
             /\ refDescs' = r.refDescs
             /\ session_id' = r.session_id
             /\ StageDone("store_descriptions", r.outcome,
                          IF r.outcome = "ok" THEN "ok" ELSE "fault", None, <<>>)
    /\ UNCHANGED <<storedResults, outFiles, request, extracted, embedding_result,
                   matching_results, result_file_path>>
    /\ UNCHANGED <<compared, peer>>

GenerateEmbeddingsStep ==
    /\ pc = "generate_embeddings"
    /\ \E em \in EmbedModels, db \in {"ok", "db_error"},
          wfRun \in BatchRuns(Len(WfOf(session_id[1]))),
          refRun \in BatchRuns(Len(RefOf(session_id[1]))) :
         LET r == GenerateEmbeddings(session_id[1], em, wfRun, refRun, db)
         IN  /\ wfDescs' = r.wfDescs
             /\ refDescs' = r.refDescs
             /\ embedding_result' =
                   IF r.outcome = "ok"
                   THEN Some([status |-> r.status,
                              embeddings_generated |-> r.embeddings_generated])
                   ELSE None
             /\ StageDone("generate_embeddings", r.outcome,
                          IF /\ r.outcome = "ok"
                             /\ AllEmbedded(r.wfDescs) /\ AllEmbedded(r.refDescs)
                          THEN "ok" ELSE "fault", None, <<>>)
    /\ UNCHANGED <<sessions, storedResults, outFiles, request, extracted, session_id,
                   matching_results, result_file_path>>
    /\ UNCHANGED <<compared, peer>>

----------------------------------------------------------------------------
(* The service methods compare_files calls from stage 7 on. Each is one action,
   taken either as the stage of the run (pc names the stage) or as a direct
   call on the session "s1" of the harness (pc = "harness"). *)

Direct == pc = "harness"

\* the direct calls of the methods other than the matcher are made on small
\* sessions
SmallSession == Len(WfOf("s1")) <= 1 /\ Len(RefOf("s1")) <= 1

\* the direct calls of the matcher are made while "s1" is the only session
Alone == sessions \subseteq {"s1"}

MatchDescriptionsStep ==
    /\ pc \in {"match_descriptions", "harness"}
    /\ Direct => Alone
    /\ \E sid \in (IF Direct THEN {"s1"} ELSE {session_id[1]}),
          threshold \in (IF Direct THEN Thresholds \cup BadThresholds
                                   ELSE {request[1].threshold}) :
         LET out == MatchDescriptions(sid, threshold)
         IN  /\ compared' = out.compared
             /\ IF Direct
                THEN CallDone("match_descriptions",
                              [session_id |-> sid, threshold |-> threshold], out)
                ELSE
                  /\ matching_results' = out.results
                  /\ StageDone("match_descriptions",
                               IF out.ok THEN "ok" ELSE "raised", "ok", None, <<>>)
                  /\ UNCHANGED <<request, extracted, session_id, embedding_result,
                                 result_file_path>>
    /\ UNCHANGED <<store, outFiles, peer>>

\* _calculate_embeddings_similarity called on the rows of the session; it is
\* entered only with non-empty lists whose rows all carry an embedding
CalculateSimilarityCall ==
    /\ Direct /\ Alone
    /\ wfDescs # <<>> /\ refDescs # <<>>
    /\ AllEmbedded(wfDescs) /\ AllEmbedded(refDescs)
    /\ \E threshold \in Thresholds :
         CallDone("calculate_embeddings_similarity", [threshold |-> threshold],
                  CalculateEmbeddingsSimilarity(WfOf("s1"), RefOf("s1"), threshold))
    /\ UNCHANGED <<store, outFiles>>
    /\ UNCHANGED <<compared, peer>>

\* generate_embeddings called on the session "s1"
GenerateEmbeddingsCall ==
    /\ Direct
    /\ Len(WfOf("s1")) <= 2 /\ Len(RefOf("s1")) <= 1
    /\ \E sid \in {"s1"}, em \in EmbedModels, db \in {"ok", "db_error"},
          wfRun \in BatchRuns(Len(WfOf("s1"))),
          refRun \in BatchRuns(Len(RefOf("s1"))) :
         LET r == GenerateEmbeddings(sid, em, wfRun, refRun, db)
         IN  /\ wfDescs' = r.wfDescs
             /\ refDescs' = r.refDescs
             /\ CallDone("generate_embeddings",
                         [session_id |-> sid, em |-> em, wfRun |-> wfRun,
                          refRun |-> refRun, db |-> db,
                          wf |-> WfOf(sid), ref |-> RefOf(sid)], r)
    /\ UNCHANGED <<sessions, storedResults, outFiles>>
    /\ UNCHANGED <<compared, peer>>

\* the direct calls of the workbook methods are made on the session without rows
NoRows == wfDescs = <<>> /\ refDescs = <<>>

ColumnLetterToIndexCall ==
    /\ Direct /\ NoRows
    /\ \E column_letter \in ColumnLetters :
         CallDone("column_letter_to_index", [column_letter |-> column_letter],
                  ColumnLetterToIndex(column_letter))
    /\ UNCHANGED <<store, outFiles>>
    /\ UNCHANGED <<compared, peer>>

ExtractWorkingFileCall ==
    /\ Direct /\ NoRows
    /\ \E sheet \in ExtractionSheets, start \in RangeStarts, end \in RangeEnds :
         CallDone("extract_working_file_data",
                  [sheet |-> sheet, start |-> start, end |-> end],
                  ExtractWorkingFileData(sheet, <<"A">>, start, end))
    /\ UNCHANGED <<store, outFiles>>
    /\ UNCHANGED <<compared, peer>>

ExtractReferenceFileCall ==
    /\ Direct /\ NoRows
    /\ \E sheet \in ExtractionSheets, start \in RangeStarts, end \in RangeEnds :
         CallDone("extract_reference_file_data",
                  [sheet |-> sheet, start |-> start, end |-> end],
                  ExtractReferenceFileData(sheet, <<"A">>, start, end, <<"B">>))
    /\ UNCHANGED <<store, outFiles>>
    /\ UNCHANGED <<compared, peer>>

StoreMatchingResultsStep ==
    /\ pc \in {"store_matching_results", "harness"}
    /\ Direct => SmallSession
    /\ \E sid \in (IF Direct THEN SessionIds ELSE {session_id[1]}),
          results \in (IF Direct THEN ResultFixtures \cup InvalidResultFixtures
                                 ELSE {matching_results}),
          is_list \in (IF Direct THEN BOOLEAN ELSE {TRUE}),
          storage \in {"ok", "db_error", "error"} :
         (is_list \/ (results = <<>> /\ storage = "ok")) /\
         (results \in InvalidResultFixtures => storage = "ok") /\
         LET r == StoreMatchingResultsOf([is_list |-> is_list, items |-> results],
                                        sid, storage)
         IN  /\ storedResults' = r.storedResults
             /\ IF Direct
                THEN CallDone("store_matching_results",
                              [session_id |-> sid, results |-> results,
                               is_list |-> is_list, storage |-> storage], r)
                ELSE /\ StageDone("store_matching_results", r.outcome,
                                  IF r.outcome = "ok" THEN "ok" ELSE "fault",
                                  None, <<>>)
                     /\ UNCHANGED locals
    /\ UNCHANGED <<sessions, wfDescs, refDescs, outFiles>>
    /\ UNCHANGED <<compared, peer>>

GetResultFilePathStep ==
    /\ pc \in {"get_result_file_path", "harness"}
    /\ Direct => SmallSession
    /\ \E path \in {None} \cup {Some(ResultFilePath("wf.xlsx", m)) : m \in Minutes} :
         IF Direct
         THEN CallDone("get_result_file_path", [file |-> "wf.xlsx"], path)
         ELSE /\ result_file_path' = path
              /\ StageDone("get_result_file_path",
                           IF path = None THEN "raised" ELSE "ok",
                           IF path = None THEN "fault" ELSE "ok", None, <<>>)
              /\ UNCHANGED <<request, extracted, session_id, embedding_result,
                             matching_results>>
    /\ UNCHANGED <<store, outFiles>>
    /\ UNCHANGED <<compared, peer>>

UpdateWorkingFileStep ==
    /\ pc \in {"update_working_file", "harness"}
    /\ Direct => NoRows
    /\ \E results \in (IF Direct THEN WriteBackResults ELSE {matching_results}),
          sheet \in UpdateSheets,
          price_column \in PriceColumns, report_column \in ReportColumns,
          target \in (IF Direct THEN {ResultFilePath("wf.xlsx", m) : m \in Minutes}
                                ELSE {result_file_path[1]}),
          io \in {"ok", "read_error", "open_error", "write_error"} :
         LET r == UpdateWorkingFile(results, sheet, price_column, report_column,
                                    target, io)
         IN  /\ outFiles' = r.outFiles
             /\ IF Direct
                THEN CallDone("update_working_file",
                              [results |-> results, sheet |-> sheet,
                               price_column |-> price_column,
                               report_column |-> report_column,
                               target |-> target, io |-> io], r)
                ELSE /\ StageDone("update_working_file", r.outcome,
                                  IF r.outcome = "ok" THEN "ok" ELSE "fault",
                                  None, <<>>)
                     /\ UNCHANGED locals
    /\ UNCHANGED store
    /\ UNCHANGED <<compared, peer>>

ClearDataStep ==
    /\ pc \in {"clear_data", "harness"}
    /\ Direct => SmallSession
    /\ \E sid \in (IF Direct THEN SessionIds \cup {MalformedId} ELSE {session_id[1]}),
          storage \in {"ok", "db_error", "error"} :
         LET r == ClearData(sid, storage)
         IN  /\ sessions' = r.sessions
             /\ wfDescs' = r.wfDescs
             /\ refDescs' = r.refDescs
             /\ storedResults' = r.storedResults
             /\ IF Direct
                THEN CallDone("clear_data", [session_id |-> sid], r)
                ELSE /\ StageDone("clear_data", r.outcome,
                                  IF r.outcome = "ok" THEN "ok" ELSE "fault",
                                  result_file_path, matching_results)
                     /\ UNCHANGED locals
    /\ UNCHANGED outFiles
    /\ UNCHANGED <<compared, peer>>



\* get_result_file_path and update_working_file as a further run makes them
\* for the working file a write-back was just made for: the path is built from
\* the name of the working file and the minute of the call
SecondWriteBackCall ==
    /\ pc = "called"
    /\ call # None /\ call[1].op = "update_working_file"
    /\ call[1].out.outcome = "ok" /\ call[1].args.results = <<>>
    /\ \E minute \in Minutes :
         LET target == ResultFilePath(call[1].args.target.base, minute)
             r == UpdateWorkingFile(<<>>, call[1].args.sheet,
                                    call[1].args.price_column,
                                    call[1].args.report_column, target, "ok")
         IN  /\ outFiles' = r.outFiles
             /\ call' = Some([op |-> "second_write_back",
                              args |-> [first_target |-> call[1].args.target,
                                        target |-> target,
                                        present |-> outFiles],
                              out |-> r])
    /\ UNCHANGED <<pc, store, locals, history, response, compared, peer>>

\* clear_data called once more with the session id a direct call has cleared
ClearDataAgainCall ==
    /\ pc = "called"
    /\ call # None /\ call[1].op = "clear_data" /\ call[1].out.outcome = "ok"
    /\ \E storage \in {"ok", "db_error", "error"} :
         LET r == ClearData(call[1].args.session_id, storage)
         IN  /\ sessions' = r.sessions
             /\ wfDescs' = r.wfDescs
             /\ refDescs' = r.refDescs
             /\ storedResults' = r.storedResults
             /\ call' = Some([op |-> "clear_data_again",
                              args |-> [session_id |-> call[1].args.session_id,
                                        first |-> call[1].out.outcome],
                              out |-> r])
    /\ UNCHANGED <<pc, locals, outFiles, history, response, compared, peer>>

----------------------------------------------------------------------------
(* A second client, working on a session of its own while the first one is
   between two of its calls. In a run it is a second compare_files request from
   stage 5 on (its stages 1 to 4 touch neither the store nor the first run);
   beside the harness it calls the same service methods in the same order,
   whatever they return. Its calls are the operators the first client uses. *)

\* what the second client extracted from its workbooks
PeerWf == <<[row_index |-> 3, description |-> DescB]>>
PeerRef == <<[row_index |-> 2, description |-> DescB, price |-> 7]>>

\* the second client steps in beside the harness before its call, and in a run
\* between the stages of the first run that work on the store, the first run
\* holding at most one row of each kind
PeerActs(at) ==
    /\ peer.pc = at
    /\ \/ pc = "harness"
       \/ /\ pc \in {"store_descriptions", "generate_embeddings", "match_descriptions"}
          /\ Len(extracted[1].wf) <= 1 /\ Len(extracted[1].ref) <= 1

PeerStoreDescriptions ==
    /\ PeerActs("store_descriptions")
    /\ \E newId \in SessionIds \ sessions :
         LET r == StoreDescriptions(PeerWf, PeerRef, newId, "ok")
         IN  /\ sessions' = r.sessions
             /\ wfDescs' = r.wfDescs
             /\ refDescs' = r.refDescs
             /\ peer' = [peer EXCEPT !.pc = "generate_embeddings",
                                     !.session_id = r.session_id]
    /\ UNCHANGED <<storedResults, pc, locals, outFiles, history, response, call,
                   compared>>

PeerGenerateEmbeddings ==
    /\ PeerActs("generate_embeddings")
    /\ \E em \in EmbedModels,
          wfRun \in BatchRuns(Len(WfOf(peer.session_id[1]))),
          refRun \in BatchRuns(Len(RefOf(peer.session_id[1]))) :
         LET r == GenerateEmbeddings(peer.session_id[1], em, wfRun, refRun, "ok")
         IN  /\ wfDescs' = r.wfDescs
             /\ refDescs' = r.refDescs
             /\ peer' = [peer EXCEPT !.pc = "match_descriptions"]
    /\ UNCHANGED <<sessions, storedResults, pc, locals, outFiles, history,
                   response, call, compared>>

PeerMatchDescriptions ==
    /\ PeerActs("match_descriptions")
    /\ LET out == MatchDescriptions(peer.session_id[1], 0)
       IN  peer' = [peer EXCEPT !.pc = IF out.ok \/ peer.kind = "client"
                                       THEN "store_matching_results" ELSE "done"]
    /\ UNCHANGED <<store, pc, locals, outFiles, history, response, call, compared>>

PeerStoreMatchingResults ==
    /\ PeerActs("store_matching_results")
    /\ \E results \in ResultFixtures :
         LET r == StoreMatchingResults(results, peer.session_id[1], "ok")
         IN  /\ storedResults' = r.storedResults
             /\ peer' = [peer EXCEPT !.pc = "clear_data"]
    /\ UNCHANGED <<sessions, wfDescs, refDescs, pc, locals, outFiles, history,
                   response, call, compared>>

PeerClearData ==
    /\ PeerActs("clear_data")
    /\ LET r == ClearData(peer.session_id[1], "ok")
       IN  /\ sessions' = r.sessions
           /\ wfDescs' = r.wfDescs
           /\ refDescs' = r.refDescs
           /\ storedResults' = r.storedResults
           /\ peer' = [peer EXCEPT !.pc = "done"]
    /\ UNCHANGED <<pc, locals, outFiles, history, response, call, compared>>

Next ==
    \/ Validate
    \/ ValidateFiles
    \/ GetFilePaths
    \/ ExtractData
    \/ StoreDescriptionsStep
    \/ GenerateEmbeddingsStep
    \/ MatchDescriptionsStep
    \/ CalculateSimilarityCall
    \/ ExtractWorkingFileCall
    \/ ExtractReferenceFileCall
    \/ ColumnLetterToIndexCall
    \/ GenerateEmbeddingsCall
    \/ StoreMatchingResultsStep
    \/ GetResultFilePathStep
    \/ UpdateWorkingFileStep
    \/ ClearDataStep
    \/ ClearDataAgainCall
    \/ SecondWriteBackCall
    \/ PeerStoreDescriptions
    \/ PeerGenerateEmbeddings
    \/ PeerMatchDescriptions
    \/ PeerStoreMatchingResults
    \/ PeerClearData

Spec == Init /\ [][Next]_vars

----------------------------------------------------------------------------
(* Properties of compare_files *)

Running == pc \in {StageOrder[i] : i \in 1..Len(StageOrder)}

Finished == pc = "done" /\ response # None

EndedInError == Finished /\ response[1].status = "error"

LastStage == history[Len(history)]

\* C1: the stages of a run are entered in the fixed order validate,
\* validate_files, get_file_paths, extract_data, store_descriptions,
\* generate_embeddings, match_descriptions, store_matching_results,
\* get_result_file_path, update_working_file, clear_data: the i-th stage entered
\* is the i-th of that order (so none is entered twice or re-entered), every
\* stage but the last entered has returned normally, and the stage about to be
\* entered is the successor of the last one entered.
C1_StagesInFixedOrder ==
    /\ Len(history) <= Len(StageOrder)
    /\ \A i \in 1..Len(history) : history[i].stage = StageOrder[i]
    /\ \A i \in 1..(Len(history) - 1) : history[i].outcome = "ok"
    /\ Running => StageIndex(pc) = Len(history) + 1

\* a run that went through the first seven stages in order
C1_Witness ==
    /\ pc = "done"
    /\ Len(history) = 7
    /\ LastStage.stage = "match_descriptions"
    /\ history[6].stage = "generate_embeddings" /\ history[6].outcome = "ok"

\* C2: a stage that returns a failure value or raises is the last stage of the
\* run: the run is over at once with a response of status "error", and no
\* stage occurs twice in a run.
C2_FailureEndsRun ==
    /\ \A i \in 1..Len(history) :
          history[i].outcome # "ok" =>
              /\ i = Len(history)
              /\ EndedInError
    /\ \A i, j \in 1..Len(history) :
          i # j => history[i].stage # history[j].stage

\* a run ended by the StorageError of store_descriptions
C2_Witness ==
    /\ EndedInError
    /\ Len(history) = 5
    /\ LastStage.stage = "store_descriptions"
    /\ LastStage.outcome = "raised"

\* C3: a run in which the request is valid, the files validate, extraction
\* yields WF and REF records, every record gets its embedding stored and no
\* storage or file operation fails, ends with status "success".
C3_CleanRunSucceeds ==
    (Finished /\ \A i \in 1..Len(history) : history[i].env = "ok")
        => response[1].status = "success"

\* C4: clear_data is entered only right after update_working_file returned
\* True; and a run that ends in error after store_descriptions returned still
\* finds its session, and the WF and REF rows it stored, in the store.
C4_ClearOnlyAfterWriteBack ==
    /\ \A i \in 1..Len(history) :
          history[i].stage = "clear_data" =>
              /\ i > 1
              /\ history[i - 1].stage = "update_working_file"
              /\ history[i - 1].outcome = "ok"
    /\ (EndedInError /\ session_id # None) =>
          /\ session_id[1] \in sessions
          /\ Len(WfOf(session_id[1])) = Len(extracted[1].wf)
          /\ Len(RefOf(session_id[1])) = Len(extracted[1].ref)
          /\ \A i \in 1..Len(extracted[1].wf) :
                /\ WfOf(session_id[1])[i].row_index = extracted[1].wf[i].row_index
                /\ WfOf(session_id[1])[i].description = extracted[1].wf[i].description
          /\ \A j \in 1..Len(extracted[1].ref) :
                /\ RefOf(session_id[1])[j].row_index = extracted[1].ref[j].row_index
                /\ RefOf(session_id[1])[j].description = extracted[1].ref[j].description
                /\ RefOf(session_id[1])[j].price = extracted[1].ref[j].price

\* a run that ended in error at the matching, its session still stored
C4_Witness ==
    /\ EndedInError
    /\ session_id # None
    /\ LastStage.stage = "match_descriptions"
    /\ session_id[1] \in sessions
    /\ Len(WfOf(session_id[1])) = 2

----------------------------------------------------------------------------
(* Properties of the matcher, stated on direct calls: the session "s1" holds
   the rows wfDescs and refDescs, and call[1] is the call made and its outcome *)

Called(op) == call # None /\ call[1].op = op

\* the session of the first client: the one its run made, "s1" beside the harness
OwnId == IF session_id # None THEN session_id[1] ELSE "s1"

Embedded == AllEmbedded(WfOf(OwnId)) /\ AllEmbedded(RefOf(OwnId))

\* percentage similarity, in hundredths, of WF row i and REF row j
Sim(i, j) == Similarity(wfDescs[i].embedding[1], refDescs[j].embedding[1])

WfRange == 1..Len(wfDescs)
RefRange == 1..Len(refDescs)

AtOrAbove(i, threshold) == {j \in RefRange : Sim(i, j) >= threshold * 100}

\* REF rows that attain the maximum similarity of WF row i
Tied(i) == {j \in RefRange : \A k \in RefRange : Sim(i, k) <= Sim(i, j)}

SameText(i, j) == Strip(wfDescs[i].description) = Strip(refDescs[j].description)

\* C5: for a session with WF and REF rows, all embedded, and a threshold in
\* [0,100], match_descriptions returns one result per WF row, in order, carrying
\* that row's wf_row_index and wf_description.
C5_OneResultPerWfRecord ==
    (/\ Called("match_descriptions")
     /\ call[1].args.threshold \in 0..100
     /\ wfDescs # <<>> /\ refDescs # <<>> /\ Embedded)
        => /\ call[1].out.ok
           /\ Len(call[1].out.results) = Len(wfDescs)
           /\ \A i \in WfRange :
                 /\ call[1].out.results[i].wf_row_index = wfDescs[i].row_index
                 /\ call[1].out.results[i].wf_description = wfDescs[i].description

\* C6: when two or more REF rows attain the maximum similarity of a WF row, that
\* maximum is at or above the threshold, and one of them has the WF row's text
\* (after trimming), the result of the WF row names a REF row with that text,
\* whatever the tied value (100.0 included) and its position among the tied.
C6_TextIdenticalTieWins ==
    Called("calculate_embeddings_similarity") =>
        \A i \in WfRange :
            (/\ AtOrAbove(i, call[1].args.threshold) # {}
             /\ Cardinality(Tied(i)) >= 2
             /\ \E j \in Tied(i) : SameText(i, j))
                => /\ call[1].out.ok
                   /\ call[1].out.results[i].matched
                   /\ Strip(call[1].out.results[i].ref_description[1])
                         = Strip(wfDescs[i].description)

\* C7: for every WF row with a REF row at or above the threshold a result is
\* produced, with matching_status "matched" when one REF row attains the row's
\* maximum and "multiple_matches_best_selected" when several do.
C7_StatusCountsTies ==
    Called("calculate_embeddings_similarity") =>
        \A i \in WfRange :
            AtOrAbove(i, call[1].args.threshold) # {}
                => /\ call[1].out.ok
                   /\ call[1].out.results[i].matching_status =
                         IF Cardinality(Tied(i)) = 1
                         THEN "matched"
                         ELSE "multiple_matches_best_selected"

\* the WF and REF lists are the same, element by element (the embedding being
\* a function of the text, so are their embeddings)
IdenticalLists ==
    /\ Len(wfDescs) = Len(refDescs)
    /\ \A i \in WfRange :
          /\ wfDescs[i].description = refDescs[i].description
          /\ wfDescs[i].embedding = refDescs[i].embedding

EveryRowMatchedInPlace ==
    /\ call[1].out.ok
    /\ \A i \in WfRange :
          /\ call[1].out.results[i].matched
          /\ call[1].out.results[i].ref_row_index = Some(refDescs[i].row_index)
          /\ call[1].out.results[i].similarity = Some(10000)
          /\ call[1].out.results[i].matching_status = "matched"

\* C8 as stated: for threshold 100 and identical lists (a description may occur
\* more than once) every WF row is matched to the REF row at its own position,
\* with similarity 100.0 and status "matched".
C8_IdenticalListsMatchInPlace ==
    (/\ Called("calculate_embeddings_similarity")
     /\ call[1].args.threshold = 100
     /\ IdenticalLists)
        => EveryRowMatchedInPlace

\* C8 amended: the same, for identical lists in which the REF row at a WF row's
\* position is the only REF row with similarity 100.0 to it.
C8_DistinctListsMatchInPlace ==
    (/\ Called("calculate_embeddings_similarity")
     /\ call[1].args.threshold = 100
     /\ IdenticalLists
     /\ \A i \in WfRange : {j \in RefRange : Sim(i, j) = 10000} = {i})
        => EveryRowMatchedInPlace

\* two identical lists of two different descriptions, matched at threshold 100
C8_Witness ==
    /\ Called("calculate_embeddings_similarity")
    /\ call[1].args.threshold = 100
    /\ IdenticalLists
    /\ Len(wfDescs) = 2
    /\ wfDescs[1].description # wfDescs[2].description
    /\ \A i \in WfRange : {j \in RefRange : Sim(i, j) = 10000} = {i}
    /\ call[1].out.ok

\* C9: for threshold 0 and non-empty WF and REF lists every WF row is matched,
\* whatever the embeddings.
C9_ThresholdZeroMatchesAll ==
    (/\ Called("calculate_embeddings_similarity")
     /\ call[1].args.threshold = 0)
        => /\ call[1].out.ok
           /\ \A i \in WfRange : call[1].out.results[i].matched

MatchingEntered ==
    \E i \in 1..Len(history) : history[i].stage = "match_descriptions"

\* C10: match_descriptions fails, without computing a similarity and without a
\* result, when the threshold is outside [0,100], when the session has no WF
\* row or no REF row, or when a row has no embedding; and a run whose embedding
\* stage reported partial_success ends in error at the matching, with no
\* matching result stored.
C10_MatchingFailsFast ==
    /\ (/\ Called("match_descriptions")
        /\ \/ call[1].args.threshold < 0 \/ call[1].args.threshold > 100
           \/ wfDescs = <<>> \/ refDescs = <<>> \/ ~Embedded)
          => /\ ~call[1].out.ok
             /\ call[1].out.results = <<>>
             /\ ~compared
    /\ (MatchingEntered /\ ~Embedded)
          => /\ EndedInError
             /\ LastStage.stage = "match_descriptions"
             /\ matching_results = <<>>
             /\ ~compared
    /\ (Finished /\ embedding_result # None
                 /\ embedding_result[1].status = "partial_success")
          => /\ EndedInError
             /\ LastStage.stage = "match_descriptions"
             /\ ~Embedded
             /\ storedResults = <<>>

\* a run that ended at the matching after a partial_success of the embedding
C10_Witness ==
    /\ Finished
    /\ embedding_result # None
    /\ embedding_result[1].status = "partial_success"
    /\ LastStage.stage = "match_descriptions"
    /\ ~compared

\* C11: in every result the matcher returns, matched = FALSE goes with
\* ref_row_index, ref_description, similarity and price all None and the status
\* "no_match"; matched = TRUE goes with all four present and the status
\* "matched" or "multiple_matches_best_selected".
C11_ResultFieldsFollowMatched ==
    (Called("calculate_embeddings_similarity") \/ Called("match_descriptions")) =>
        \A i \in 1..Len(call[1].out.results) :
            LET r == call[1].out.results[i]
            IN  /\ ~r.matched =>
                      /\ r.ref_row_index = None /\ r.ref_description = None
                      /\ r.similarity = None /\ r.price = None
                      /\ r.matching_status = "no_match"
                /\ r.matched =>
                      /\ r.ref_row_index # None /\ r.ref_description # None
                      /\ r.similarity # None /\ r.price # None
                      /\ r.matching_status \in
                            {"matched", "multiple_matches_best_selected"}

\* a call that returned a matched and an unmatched result
C11_Witness ==
    /\ Called("calculate_embeddings_similarity")
    /\ call[1].out.ok
    /\ \E i, j \in 1..Len(call[1].out.results) :
          call[1].out.results[i].matched /\ ~call[1].out.results[j].matched

----------------------------------------------------------------------------
(* Properties of the extraction, stated on direct calls: call[1].args holds the
   sheet and the range, call[1].out what the method returned *)

Extracted(op) == Called(op) /\ call[1].out.ok

ExtractionOps == {"extract_working_file_data", "extract_reference_file_data"}

\* the method of the call applied to another sheet or range
ExtractAgain(sheet, start, end) ==
    IF call[1].op = "extract_working_file_data"
    THEN ExtractWorkingFileData(sheet, <<"A">>, start, end)
    ELSE ExtractReferenceFileData(sheet, <<"A">>, start, end, <<"B">>)

\* len(df): the rows of the source below its header row
RowCount(sheet) == Len(sheet.rows)

\* C12: WF and REF extraction with a range whose end is greater than the row
\* count of the source do not raise and return the records they return for the
\* range that ends at the row count.
C12_EndBeyondRowCountClamps ==
    \A op \in ExtractionOps :
        (/\ Called(op)
         /\ call[1].args.start >= 1
         /\ call[1].args.end > RowCount(call[1].args.sheet))
            => /\ call[1].out.ok
               /\ call[1].out.records =
                     ExtractAgain(call[1].args.sheet, call[1].args.start,
                                  RowCount(call[1].args.sheet)).records

\* the cell of column c (0-based) the loop read at loop index i
CellRead(i, c) == CellAt(ReadExcel(call[1].args.sheet), ReadPosition(i), c)

\* C15: every record an extraction returns for {start, end} has row_index =
\* loop index + 1 (its description is the one read at that loop index), with
\* start <= row_index <= end, and the row_index values strictly increase.
C15_RowIndexIsLoopIndexPlusOne ==
    \A op \in ExtractionOps :
        Extracted(op) =>
            LET recs == call[1].out.records
            IN  /\ \A k \in 1..Len(recs) :
                      /\ call[1].args.start <= recs[k].row_index
                      /\ recs[k].row_index <= call[1].args.end
                      /\ recs[k].description =
                            Strip(Str(CellRead(recs[k].row_index - 1, 0)))
                /\ \A k \in 1..(Len(recs) - 1) :
                      recs[k].row_index < recs[k + 1].row_index

\* an extraction that returned two records
C15_Witness ==
    /\ Extracted("extract_working_file_data")
    /\ Len(call[1].out.records) >= 2
    /\ call[1].args.start >= 2

\* the loop indices of the call: range(start - 1, end), the WF loop ending at
\* the row count when end is greater
LoopRange ==
    LET n == RowCount(call[1].args.sheet)
        last == IF call[1].op = "extract_working_file_data" /\ call[1].args.end > n
                THEN n ELSE call[1].args.end
    IN  (call[1].args.start - 1)..(last - 1)

GoodDescription(c) == c.kind = "text" /\ Strip(c.text) # <<>>
GoodPrice(c) == c.kind = "number" \/ (c.kind = "text" /\ c.text = <<"7">>)

\* the sheet of the call with every row replaced by a row that is kept
CleanSheet ==
    [header |-> call[1].args.sheet.header,
     rows |-> [k \in 1..RowCount(call[1].args.sheet) |->
                 <<TextCell(DescA), NumberCell(5)>>]]

\* C16: every record of an extraction has a description that is trimmed and not
\* empty, and every REF record a price that parsed as a number; a row with a
\* blank or whitespace-only description, or (REF) an empty or non-numeric price,
\* is left out, the other rows of the range are returned, and the extraction
\* raises only if it raises on a sheet of the same size without such rows.
C16_BadRowsAreSkipped ==
    \A op \in ExtractionOps :
        Called(op) =>
            /\ call[1].out.ok =
                  ExtractAgain(CleanSheet, call[1].args.start, call[1].args.end).ok
            /\ call[1].out.ok =>
                  LET recs == call[1].out.records
                      ref == op = "extract_reference_file_data"
                      good(i) == /\ GoodDescription(CellRead(i, 0))
                                 /\ ref => GoodPrice(CellRead(i, 1))
                  IN  /\ \A k \in 1..Len(recs) :
                            /\ recs[k].description # <<>>
                            /\ Strip(recs[k].description) = recs[k].description
                            /\ good(recs[k].row_index - 1)
                      /\ ref => \A k \in 1..Len(recs) : recs[k].price \in {5, 7}
                      /\ \A i \in LoopRange :
                            good(i) <=> \E k \in 1..Len(recs) :
                                           recs[k].row_index = i + 1

\* a REF extraction that left out a whitespace-only description and a
\* non-numeric price and returned the row between them
C16_Witness ==
    /\ Extracted("extract_reference_file_data")
    /\ call[1].out.records # <<>>
    /\ \E i, j \in LoopRange :
          /\ CellRead(i, 0) = TextCell(<<" ">>)
          /\ CellRead(j, 1) = TextCell(<<"x">>)


----------------------------------------------------------------------------
(* Properties of the write-back *)

Updated == Called("update_working_file")

\* no two results of the call name the same row
DistinctRows(results) ==
    \A j, k \in 1..Len(results) :
        results[j].wf_row_index = results[k].wf_row_index => j = k

\* the row indices extract_working_file_data returns for the sheet, over
\* every range that starts at row 1 or later
WfRowIndices(sheet) ==
    {r \in 1..(MaxRows + 3) :
        \E start \in RangeStarts \ {0}, end \in RangeEnds :
            LET e == ExtractWorkingFileData(sheet, <<"A">>, start, end)
            IN  e.ok /\ \E q \in 1..Len(e.records) : e.records[q].row_index = r}

\* the cell of the written table at frame position p (0-based, below the
\* header row) and column position c
WrittenCell(p, c) == call[1].out.sheet.rows[p + 1][c + 1]

ReportIdx == ColumnLetterToIndex(call[1].args.report_column).index
PriceIdx == ColumnLetterToIndex(call[1].args.price_column).index

\* C13: a result that carries the row_index of a record the working-file
\* extractor returned is written to the table row that record was read from,
\* whatever the row_index, row 1 included
C13_WriteBackHitsTheRowRead ==
    (Updated /\ call[1].out.outcome = "ok" /\ DistinctRows(call[1].args.results))
    => \A k \in 1..Len(call[1].args.results) :
          LET result == call[1].args.results[k]
              n == Len(call[1].args.sheet.rows)
          IN  result.wf_row_index \in WfRowIndices(call[1].args.sheet)
              => WrittenCell(Position(ReadPosition(result.wf_row_index - 1), n),
                             ReportIdx) = ReportCell(result)

\* C14: every result gets its row updated, under one row conversion for all
\* of them: the report cell always, the price cell of a matched result, and
\* the number of updated rows is the number of results
C14_EveryResultIsWritten ==
    (Updated /\ call[1].args.io = "ok" /\ DistinctRows(call[1].args.results)
        /\ call[1].args.price_column # call[1].args.report_column)
    => /\ call[1].out.outcome = "ok"
       /\ call[1].out.updated_rows = Len(call[1].args.results)
       /\ \E d \in 0..IndexOffset :
            \A k \in 1..Len(call[1].args.results) :
               LET result == call[1].args.results[k]
                   p == result.wf_row_index - d
               IN  /\ p >= 0 /\ p < Len(call[1].out.sheet.rows)
                   /\ WrittenCell(p, ReportIdx) = ReportCell(result)
                   /\ result.matched => WrittenCell(p, PriceIdx) = PriceCell(result)

\* C18: a call that returns False leaves no file at the target
C18_FailureLeavesNoFile ==
    (Updated /\ call[1].out.outcome = "returned_failure") => outFiles = {}

\* whether a result of the call addresses sheet row r (row 1 is the header row)
NamedBy(r, results) == \E k \in 1..Len(results) : results[k].wf_row_index = r
NamedByMatched(r, results) ==
    \E k \in 1..Len(results) :
        results[k].wf_row_index = r /\ results[k].matched

\* C19: the written table differs from the source table only in the price
\* and report cells of the rows the results name; the price cell of a row
\* named only by unmatched results keeps its value
C19_OnlyNamedCellsChange ==
    (Updated /\ call[1].out.outcome = "ok")
    => LET src == call[1].args.sheet
           dst == call[1].out.sheet
           results == call[1].args.results
       IN  /\ \A c \in 1..Len(src.header) : dst.header[c] = src.header[c]
           /\ \A p \in 1..Len(src.rows), c \in 1..Len(src.header) :
                 \/ dst.rows[p][c] = src.rows[p][c]
                 \/ /\ NamedBy(p + 1, results)
                    /\ c - 1 \in {PriceIdx, ReportIdx}
                    /\ (c - 1 = PriceIdx /\ PriceIdx # ReportIdx)
                         => NamedByMatched(p + 1, results)


----------------------------------------------------------------------------
(* Properties of two clients working side by side *)

\* everything the store holds for one session
SessionState(sid) ==
    [exists |-> sid \in sessions, wf |-> WfOf(sid), ref |-> RefOf(sid),
     results |-> ResultsOf(sid)]

IdsIn(option) == IF option = None THEN {} ELSE {option[1]}

\* the sessions the second client works on in a step of its own
PeerSessions == IdsIn(peer.session_id) \cup IdsIn(peer'.session_id)

\* the sessions the first client works on in a step of its own: the session of
\* its run, or the session a direct call names
OwnSessions ==
    IdsIn(session_id) \cup IdsIn(session_id')
        \cup (IF call' # None /\ call' # call /\ "session_id" \in DOMAIN call'[1].args
              THEN {call'[1].args.session_id} ELSE {})

\* C17: two clients that interleave work on two different sessions, each made
\* by its own store step, and no store, embed, match, store-results or clear
\* step of one changes what the store holds for a session of the other
C17_SessionsAreIsolated ==
    [][/\ \A sid \in SessionIds :
             sid \notin (IF peer' # peer THEN PeerSessions ELSE OwnSessions)
             => SessionState(sid)' = SessionState(sid)
       /\ (session_id = None /\ session_id' # None)
             => session_id'[1] \notin sessions /\ session_id'[1] \in sessions'
       /\ (peer.session_id = None /\ peer'.session_id # None)
             => peer'.session_id[1] \notin sessions /\ peer'.session_id[1] \in sessions'
       /\ (session_id' # None /\ peer'.session_id # None /\ peer'.kind = "run")
             => session_id'[1] # peer'.session_id[1]]_vars

C17_Witness ==
    /\ peer.kind = "run" /\ peer.pc = "done" /\ pc = "done"
    /\ session_id # None /\ peer.session_id # None
    /\ {session_id[1], peer.session_id[1]} \subseteq sessions
    /\ embedding_result # None
    /\ AllEmbedded(WfOf(session_id[1])) /\ WfOf(session_id[1]) # <<>>
    /\ AllEmbedded(WfOf(peer.session_id[1])) /\ WfOf(peer.session_id[1]) # <<>>


----------------------------------------------------------------------------
(* Properties of generate_embeddings *)

Generated == Called("generate_embeddings") /\ call[1].out.outcome = "ok"

\* what the batches that did not fail add to the count
RECURSIVE CommittedCount(_, _)
CommittedCount(run, b) ==
    IF b = 0 THEN 0
    ELSE (IF run[b].raised THEN 0 ELSE run[b].counted) + CommittedCount(run, b - 1)

\* row i of a list gets its vector stored by the run: its batch did not fail
\* and the model returned a vector for it
StoredByRun(run, i) ==
    LET batch == run[((i - 1) \div BatchSize) + 1]
    IN  ~batch.raised /\ (i - 1) % BatchSize < batch.stored

\* C20: whatever batch fails, the rows of every batch that does not fail get
\* their vectors, WF and REF alike; a failed batch adds nothing to
\* embeddings_generated; and the status is "success" when embeddings_generated
\* is the number of WF plus REF rows, "partial_success" otherwise
C20_FailedBatchAddsNothing ==
    Generated
    => LET a == call[1].args
           out == call[1].out
       IN  /\ \A i \in 1..Len(a.wf) :
                 StoredByRun(a.wfRun, i)
                 => WfOf("s1")[i].embedding = Some(a.em[a.wf[i].description])
           /\ \A j \in 1..Len(a.ref) :
                 StoredByRun(a.refRun, j)
                 => RefOf("s1")[j].embedding = Some(a.em[a.ref[j].description])
           /\ \A i \in 1..Len(a.wf) :
                 ~StoredByRun(a.wfRun, i)
                 => WfOf("s1")[i].embedding = a.wf[i].embedding
           /\ out.embeddings_generated =
                 CommittedCount(a.wfRun, NumBatches(Len(a.wf)))
                    + CommittedCount(a.refRun, NumBatches(Len(a.ref)))
           /\ out.status = IF out.embeddings_generated = Len(a.wf) + Len(a.ref)
                           THEN "success" ELSE "partial_success"


----------------------------------------------------------------------------
(* Properties of the error responses *)

\* the stage an error_message names; the bare text of an exception names none
StageNamedBy(message) ==
    CASE message = "Incorrect input parameters" -> "validate"
      [] message = "Incorrect files" -> "validate_files"
      [] message = "Error during data extraction" -> "extract_data"
      [] message = "Error while storing descriptions" -> "store_descriptions"
      [] message = "Error while generating embedding" -> "generate_embeddings"
      [] message = "Error when adjusting the descriptions" -> "match_descriptions"
      [] message = "Error while storing results" -> "store_matching_results"
      [] message = "Error while updating the file" -> "update_working_file"
      [] OTHER -> "none"

\* C21: the error response of a run names the stage that failed, whichever
\* stage it was
C21_ErrorNamesTheStage ==
    EndedInError => StageNamedBy(response[1].error_message) = LastStage.stage


----------------------------------------------------------------------------
(* Properties of clear_data *)

\* the step is a clear_data call of the harness on session sid that returns True
ClearsDirectly(sid) ==
    /\ call' # call /\ call'[1].op = "clear_data"
    /\ call'[1].args.session_id = sid /\ call'[1].out.outcome = "ok"

\* the step is a clear_data call of the second client on session sid
PeerClears(sid) ==
    /\ peer.pc = "clear_data" /\ peer'.pc = "done"
    /\ peer.session_id = Some(sid)

\* the step is a further clear_data on the session a call before it cleared
ClearsAgain ==
    /\ call' # call /\ call'[1].op = "clear_data_again"
    /\ call'[1].args.first = "ok"

NothingOf(sid) ==
    [exists |-> FALSE, wf |-> <<>>, ref |-> <<>>, results |-> <<>>]

\* C22: after clear_data(session_id) returns True the store holds neither the
\* session nor a WF row, REF row or matching result of it, and holds for every
\* other session what it held before; a further clear_data on the same id
\* fails with SessionNotFoundError and changes nothing
C22_ClearRemovesOneSession ==
    [][/\ \A sid \in SessionIds :
            (ClearsDirectly(sid) \/ PeerClears(sid))
            => /\ SessionState(sid)' = NothingOf(sid)
               /\ \A other \in SessionIds \ {sid} :
                     SessionState(other)' = SessionState(other)
       /\ ClearsAgain
            => /\ call'[1].out.outcome = "raised"
               /\ call'[1].out.error = "SessionNotFoundError"
               /\ UNCHANGED store]_vars

\* a session was cleared beside another one that holds rows, and cleared again
C22_Witness ==
    /\ Called("clear_data_again") /\ call[1].args.first = "ok"
    /\ call[1].out.outcome = "raised"
    /\ peer.session_id # None /\ WfOf(peer.session_id[1]) # <<>>
    /\ call[1].args.session_id # peer.session_id[1] 


----------------------------------------------------------------------------
(* Properties of the column addresses *)

Converted == Called("column_letter_to_index")

IsUpperLetter(ch) == \E k \in 1..26 : Alphabet[k] = ch

\* the value of a string of uppercase letters read as a numeral of base 26
\* with the digits A = 1 .. Z = 26, the first letter weighing most
RECURSIVE Numeral(_)
Numeral(letters) ==
    IF letters = <<>> THEN 0
    ELSE (CHOOSE k \in 1..26 : Alphabet[k] = Head(letters))
            * 26 ^ (Len(letters) - 1) + Numeral(Tail(letters))

\* C23: the conversion returns the base-26 value of the letters minus one
\* (A -> 0, Z -> 25, AA -> 26, ZZ -> 701) and fails for every string holding a
\* character other than an uppercase letter A-Z, a lowercase letter included
C23_LetterToIndexIsBase26 ==
    Converted
    => LET L == call[1].args.column_letter
           out == call[1].out
       IN  /\ (L # <<>> /\ \A k \in 1..Len(L) : IsUpperLetter(L[k]))
                 => out.ok /\ out.index = Numeral(L) - 1
           /\ L = <<"A">> => out.index = 0
           /\ L = <<"Z">> => out.index = 25
           /\ L = <<"A", "A">> => out.index = 26
           /\ L = <<"Z", "Z">> => out.index = 701
           /\ (\E k \in 1..Len(L) : ~IsUpperLetter(L[k])) => ~out.ok

\* C24: a column that update_working_file adds at the index of a column letter
\* comes back under that letter: the conversion from index to letter used when
\* the table is extended is the inverse of the conversion from letter to index
C24_AddedColumnCarriesItsLetter ==
    (Updated /\ call[1].out.outcome = "ok")
    => \A letter \in {call[1].args.price_column, call[1].args.report_column} :
          LET idx == ColumnLetterToIndex(letter).index
          IN  idx >= Len(call[1].args.sheet.header)
              => call[1].out.sheet.header[idx + 1] = TextCell(letter)

\* C30: an index the conversion returns without error is never negative, the
\* empty string included
C30_AcceptedIndexIsNotNegative ==
    (Converted /\ call[1].out.ok) => call[1].out.index >= 0


----------------------------------------------------------------------------
(* Properties of store_matching_results *)

RequiredFields == {"wf_row_index", "wf_description", "matched", "matching_status"}

\* an element that lacks a required field, or is matched and lacks one of the
\* fields of a match
InvalidElement(r) ==
    \/ ~(RequiredFields \subseteq DOMAIN r)
    \/ /\ r.matched
       /\ \/ r.ref_row_index = None \/ r.ref_description = None
          \/ r.similarity = None \/ r.price = None

\* C25: store_matching_results, called for a session that exists, raises
\* ValueError and stores no result for the session when its argument is not a
\* list or holds an element of invalid structure
C25_InvalidStructureRaises ==
    [][(/\ call' # call /\ call'[1].op = "store_matching_results"
        /\ call'[1].args.session_id \in sessions
        /\ call'[1].args.storage = "ok"
        /\ \/ ~call'[1].args.is_list
           \/ \E k \in 1..Len(call'[1].args.results) :
                 InvalidElement(call'[1].args.results[k]))
       => /\ call'[1].out.outcome = "raised"
          /\ call'[1].out.error = "ValueError"
          /\ storedResults' = storedResults]_vars


----------------------------------------------------------------------------
(* Properties of the output file of a run *)

C29_ResultPathsDiffer ==
    Called("second_write_back")
    => /\ call[1].args.target # call[1].args.first_target
       /\ call[1].args.target \notin call[1].args.present



----------------------------------------------------------------------------
(* Properties of the count generate_embeddings reports *)

\* the rows of a list the run stores a vector for
RowsStored(run, len) == {i \in 1..len : StoredByRun(run, i)}

\* C27: embeddings_generated is the number of WF and REF rows of the session
\* whose vector the run has stored; a row that is counted holds a vector, also
\* when a later save of its batch fails and the batch is rolled back
C27_CountIsWhatIsStored ==
    Generated
    => LET a == call[1].args
           out == call[1].out
       IN  /\ out.embeddings_generated =
                 Cardinality(RowsStored(a.wfRun, Len(a.wf)))
                    + Cardinality(RowsStored(a.refRun, Len(a.ref)))
           /\ out.embeddings_generated <=
                 Cardinality({i \in 1..Len(a.wf) :
                                 WfOf("s1")[i].embedding # None})
                    + Cardinality({j \in 1..Len(a.ref) :
                                      RefOf("s1")[j].embedding # None})



----------------------------------------------------------------------------
(* Properties of the rows the WF extraction returns *)

\* the description cell of row r of the source, rows counted from 1 with the
\* header row as row 1
SourceCell(sheet, r) == IF r = 1 THEN sheet.header[1] ELSE sheet.rows[r - 1][1]

\* the number of the last data row of the source
LastDataRow(sheet) == RowCount(sheet) + 1

\* C28: for the range {start, end} the WF extraction returns a record for every
\* data row of the source from start to end whose description is not blank,
\* the last data row included when the range covers it, and every description
\* it returns is the description of a row from start to end
C28_EveryRowOfTheRangeIsReturned ==
    Extracted("extract_working_file_data")
    => LET a == call[1].args
           recs == call[1].out.records
       IN  /\ \A r \in a.start..a.end :
                 (/\ 2 <= r /\ r <= LastDataRow(a.sheet)
                  /\ KeepsDescription(SourceCell(a.sheet, r)))
                 => \E k \in 1..Len(recs) :
                       /\ recs[k].row_index = r
                       /\ recs[k].description = Strip(Str(SourceCell(a.sheet, r)))
           /\ \A k \in 1..Len(recs) :
                 \E r \in a.start..a.end :
                    /\ 1 <= r /\ r <= LastDataRow(a.sheet)
                    /\ recs[k].description = Strip(Str(SourceCell(a.sheet, r)))

====
